---------------------------- MODULE Spec2Model ----------------------------
(***************************************************************************)
(* A model of the legal-filing wizard: the App component's state           *)
(* (formData, currentStep, errors, status) and its handlers                *)
(* (handleInputChange, validateStep, handleNext, handlePrevious,           *)
(* handleSubmit, handleSpeechInput), and the debounced case-description    *)
(* analyzer of the FormSection component.                                  *)
(*                                                                         *)
(* A text value is a sequence of one-character strings, so that length     *)
(* checks and character-class checks are computed, not assumed.            *)
(***************************************************************************)
EXTENDS Integers, Sequences, FiniteSets, Bags, TLC

----------------------------------------------------------------------------
(* Text helpers *)

\* the text of n characters c
Rep(c, n) == [i \in 1..n |-> c]

LowerLetters ==
    {"a","b","c","d","e","f","g","h","i","j","k","l","m",
     "n","o","p","q","r","s","t","u","v","w","x","y","z"}

UpperLetters ==
    {"A","B","C","D","E","F","G","H","I","J","K","L","M",
     "N","O","P","Q","R","S","T","U","V","W","X","Y","Z"}

\* \s of a JavaScript regular expression, as far as the inputs can hold it
Whitespace == {" "}

Text(s) == [kind |-> "text", chars |-> s]
File(n) == [kind |-> "file", chars |-> n]

\* JavaScript truthiness of a string | File value
Truthy(v) == v.kind = "file" \/ Len(v.chars) > 0

----------------------------------------------------------------------------
(* Static tables of App.tsx *)

\* formSections[i].fields.map(f => f.id); formSections has two entries only
SectionCount == 2

SectionFields(i) ==
    IF i = 0 THEN <<"name", "dob", "address", "idProof">>
    ELSE <<"caseType", "caseDescription", "supportingDocs">>

\* every field of both sections is declared required: true
Required(f) == TRUE

FieldIds ==
    {"name", "dob", "address", "idProof",
     "caseType", "caseDescription", "supportingDocs"}

\* steps = ['Personal Info', 'Case Details', 'Review', 'Submit']
StepCount == 4

NameMin == 2
NameMax == 50
AddressMin == 10
DescriptionMin == 50

Range(s) == {s[i] : i \in DOMAIN s}

\* a z.string() with .min(lo), optional .max(hi), optional .regex over a
\* character class: every failing check adds an issue, in declaration order
ZString(v, lo, loMsg, hi, hiMsg, class, classMsg) ==
    IF v.kind # "text" THEN <<"Expected string, received object">>
    ELSE (IF Len(v.chars) < lo THEN <<loMsg>> ELSE <<>>)
      \o (IF hi >= 0 /\ Len(v.chars) > hi THEN <<hiMsg>> ELSE <<>>)
      \o (IF class # {} /\ ~(Len(v.chars) >= 1 /\ Range(v.chars) \subseteq class)
          THEN <<classMsg>> ELSE <<>>)

ZInstanceOfFile(v, msg) == IF v.kind = "file" THEN <<>> ELSE <<msg>>

\* formSchema.shape[field] applied to a value: the sequence of issue messages
SchemaIssues(f, v) ==
    CASE f = "name" ->
           ZString(v, NameMin, "String must contain at least 2 character(s)",
                   NameMax, "String must contain at most 50 character(s)",
                   LowerLetters \cup UpperLetters \cup Whitespace, "Invalid")
      [] f = "dob" ->
           ZString(v, 1, "Date of birth is required", -1, "", {}, "")
      [] f = "address" ->
           ZString(v, AddressMin, "Please enter a complete address", -1, "", {}, "")
      [] f = "idProof" -> ZInstanceOfFile(v, "Identity proof is required")
      [] f = "caseType" ->
           ZString(v, 1, "Please select a case type", -1, "", {}, "")
      [] f = "caseDescription" ->
           ZString(v, DescriptionMin, "Please provide a detailed description",
                   -1, "", {}, "")
      [] f = "supportingDocs" ->
           ZInstanceOfFile(v, "Supporting documents are required")


----------------------------------------------------------------------------
(* State *)

VARIABLES
    formData,       \* App: useState<FormData>({}), field id -> value
    currentStep,    \* App: useState(0)
    errors,         \* App: useState<ValidationErrors>({}), field id -> message
    status,         \* App: useState({id, status, lastUpdated, comments})
    mounted,        \* whether a FormSection instance is rendered
    debounceTimer,  \* FormSection effect: <<>> or <<text captured by the timer>>
    isAnalyzing,    \* FormSection: useState(false)
    aiGuidance,     \* FormSection: useState(null), <<>> or <<payload>>
    requests,       \* analyzeCaseDescription calls that have not settled
    isConfigured,   \* azure-openai.ts: isConfigured && client, fixed at load
    translations,   \* translateText calls of handleSpeechInput not yet settled
    uncaught,       \* whether the handler that ran last ended in an uncaught error
    available,      \* SpeechInput: whether window.webkitSpeechRecognition exists
    isListening,    \* SpeechInput: useState(false)
    recognition,    \* SpeechInput: useState(null), <<>> or <<recognition object>>
    selectedLanguage, \* SpeechInput: useState('hi-IN')
    isTranslating,  \* SpeechInput: useState(false)
    streams,        \* recognition objects that were started and have not ended
    captures        \* translateText calls of onresult not yet settled

vars == <<formData, currentStep, errors, status, mounted, debounceTimer,
          isAnalyzing, aiGuidance, requests, isConfigured, translations, uncaught,
          available, isListening, recognition, selectedLanguage, isTranslating,
          streams, captures>>

appVars == <<formData, currentStep, errors, status>>
analyzerVars == <<mounted, debounceTimer, isAnalyzing, aiGuidance, requests>>
speechVars == <<available, isListening, recognition, selectedLanguage,
                isTranslating, streams, captures>>

Empty == [f \in {} |-> ""]

Last(s) == s[Len(s)]

----------------------------------------------------------------------------
(* validateStep *)

\* requiredFields.filter(field => !currentData[field])
MissingFields(step, data) ==
    {f \in Range(SectionFields(step)) :
        Required(f) /\ (f \notin DOMAIN data \/ ~Truthy(data[f]))}

\* the paths of the ZodError of currentSchema.parse(currentData)
SchemaFailures(step, data) ==
    {f \in Range(SectionFields(step)) \cap DOMAIN data :
        SchemaIssues(f, data[f]) # <<>>}

\* error.errors.reduce: a later issue of the same path overwrites an earlier one
SchemaErrors(step, data) ==
    [f \in SchemaFailures(step, data) |-> Last(SchemaIssues(f, data[f]))]

RequiredErrors(step, data) ==
    [f \in MissingFields(step, data) |-> "This field is required"]

\* validateStep without its schema pass: a step whose required fields are all
\* present is accepted whatever their shape
ValidateStep_RequiredOnly(step, data, errs) ==
    IF step >= SectionCount
    THEN [threw |-> TRUE, ok |-> FALSE, errors |-> errs]
    ELSE IF MissingFields(step, data) # {}
    THEN [threw |-> FALSE, ok |-> FALSE, errors |-> RequiredErrors(step, data)]
    ELSE [threw |-> FALSE, ok |-> TRUE, errors |-> errs]

\* The outcome of validateStep(): threw (formSections[currentStep] is
\* undefined, so reading .fields raises a TypeError), or a boolean result
\* with the errors state after the call.
ValidateStep(step, data, errs) ==
    IF step >= SectionCount
    THEN [threw |-> TRUE, ok |-> FALSE, errors |-> errs]
    ELSE IF MissingFields(step, data) # {}
    THEN [threw |-> FALSE, ok |-> FALSE, errors |-> RequiredErrors(step, data)]
    ELSE IF SchemaFailures(step, data) # {}
    THEN [threw |-> FALSE, ok |-> FALSE, errors |-> SchemaErrors(step, data)]
    ELSE [threw |-> FALSE, ok |-> TRUE, errors |-> errs]

----------------------------------------------------------------------------
(* The FormSection instance and its debounce effect *)

\* FormSection is rendered while currentStep < steps.length - 2
Rendered(step) == step < StepCount - 2

Description(data) ==
    IF "caseDescription" \in DOMAIN data THEN <<data["caseDescription"]>> ELSE <<>>

AnalyzeThreshold == 50

\* the effect body without its length test
ShouldAnalyze_AnyText(data) ==
    /\ "caseDescription" \in DOMAIN data
    /\ data["caseDescription"].kind = "text"
    /\ Len(data["caseDescription"].chars) > 0

\* the effect body: caseDescription && caseDescription.length > 50
ShouldAnalyze(data) ==
    /\ "caseDescription" \in DOMAIN data
    /\ data["caseDescription"].kind = "text"
    /\ Len(data["caseDescription"].chars) > AnalyzeThreshold

ArmTimer(data) ==
    IF ShouldAnalyze(data) THEN <<data["caseDescription"].chars>> ELSE <<>>

\* requests of an unmounted instance still settle, but their setState calls
\* reach no rendered state
Orphan(bag) ==
    LET dead(r) == [r EXCEPT !.live = FALSE]
    IN  [q \in {dead(r) : r \in DOMAIN bag} |->
            LET same == {r \in DOMAIN bag : dead(r) = q}
                RECURSIVE Sum(_)
                Sum(S) == IF S = {} THEN 0
                          ELSE LET x == CHOOSE x \in S : TRUE
                               IN bag[x] + Sum(S \ {x})
            IN  Sum(same)]

\* A handler's state updates and the effects of the render they cause are
\* taken as one step: no timer callback runs between a change of the
\* description and the cleanup of the effect that watched the old one.
\* What a commit of (newStep, newData) does to the FormSection: unmount
\* (cleanup clears the timer, the instance's state is dropped), mount (fresh
\* state, the effect runs), or an update (the effect's cleanup and body run
\* only when formData.caseDescription changed).
Render(newStep, newData) ==
    IF ~Rendered(newStep)
    THEN /\ mounted' = FALSE
         /\ debounceTimer' = <<>>
         /\ isAnalyzing' = FALSE
         /\ aiGuidance' = <<>>
         /\ requests' = Orphan(requests)
    ELSE IF ~mounted
    THEN /\ mounted' = TRUE
         /\ debounceTimer' = ArmTimer(newData)
         /\ isAnalyzing' = FALSE
         /\ aiGuidance' = <<>>
         /\ requests' = requests
    ELSE /\ mounted' = TRUE
         /\ debounceTimer' = IF Description(newData) = Description(formData)
                             THEN debounceTimer ELSE ArmTimer(newData)
         /\ UNCHANGED <<isAnalyzing, aiGuidance, requests>>


----------------------------------------------------------------------------
(* Inputs *)

Chars(str) ==
    CASE str = "date" -> <<"2","0","0","0","-","0","1","-","0","1">>
      [] str = "addr9" -> <<"1"," ","m","a","i","n"," ","s","t">>
      [] str = "addr10" -> <<"1","2"," ","m","a","i","n"," ","s","t">>
      [] str = "civil" -> <<"C","i","v","i","l"," ","C","a","s","e">>

\* lengths of the case descriptions a user types
DescriptionLengths == {49, 50, 51}

\* what the rendered control of a field can hand to onInputChange
UIInputs(f) ==
    CASE f = "name" ->
           {Text(<<"a">>), Text(<<"a","l">>)}
      [] f = "dob" -> {Text(Chars("date"))}
      [] f = "address" -> {Text(Chars("addr9")), Text(Chars("addr10"))}
      [] f = "caseType" -> {Text(<<>>), Text(Chars("civil"))}
      [] f = "caseDescription" -> {Text(Rep("a", n)) : n \in DescriptionLengths}
      [] f = "idProof" -> {File(<<"i","d">>)}
      [] f = "supportingDocs" -> {File(<<"d","o","c">>)}

----------------------------------------------------------------------------
(* App handlers *)

\* a setFormData that does not spread the previous values
SetField_Replacing(data, id, v) == [f \in {id} |-> v]

\* setFormData(prev => ({...prev, [id]: value}))
SetField(data, id, v) ==
    [f \in DOMAIN data \cup {id} |-> IF f = id THEN v ELSE data[f]]

\* an edit that drops every error instead of the edited field's
ClearError_All(errs, id) == [f \in {} |-> ""]

\* setErrors(prev => { delete newErrors[id]; ... })
ClearError(errs, id) == [f \in DOMAIN errs \ {id} |-> errs[f]]

\* Math.min(prev + 1, steps.length - 1)
NextStep(prev) == IF prev + 1 < StepCount - 1 THEN prev + 1 ELSE StepCount - 1

\* Math.max(prev - 1, 0)
PreviousStep(prev) == IF prev - 1 > 0 THEN prev - 1 ELSE 0

\* a submission that steps past the last stage
SubmittedStep_PastEnd == StepCount

\* setCurrentStep(steps.length - 1)
SubmittedStep == StepCount - 1

Pending ==
    [status |-> "pending", comments |-> "Your application is being processed."]

\* a submission that files the application under the wrong status
Reviewing_Rejected ==
    [status |-> "rejected", comments |-> "Your application is under review."]

Reviewing ==
    [status |-> "reviewing", comments |-> "Your application is under review."]

\* an onInputChange that keeps the value a field already has
HandleInputChange_KeepFirst(id, v) ==
    /\ mounted
    /\ id \in Range(SectionFields(currentStep))
    /\ formData' = IF id \in DOMAIN formData THEN formData ELSE SetField(formData, id, v)
    /\ errors' = ClearError(errors, id)
    /\ Render(currentStep, formData')
    /\ uncaught' = FALSE
    /\ UNCHANGED <<currentStep, status, isConfigured, translations>>
    /\ UNCHANGED speechVars

\* a control of the rendered FormSection changes: onInputChange(field.id, value)
HandleInputChange(id, v) ==
    /\ mounted
    /\ id \in Range(SectionFields(currentStep))
    /\ formData' = SetField(formData, id, v)
    /\ errors' = ClearError(errors, id)
    /\ Render(currentStep, formData')
    /\ uncaught' = FALSE
    /\ UNCHANGED <<currentStep, status, isConfigured, translations>>
    /\ UNCHANGED speechVars

\* a Next button that is dead while the analyzer is busy
HandleNext_WhenIdle ==
    /\ currentStep < StepCount - 1
    /\ ~isAnalyzing
    /\ LET r == ValidateStep(currentStep, formData, errors)
       IN  /\ uncaught' = r.threw
           /\ IF r.threw
              THEN UNCHANGED <<currentStep, errors, analyzerVars>>
              ELSE IF r.ok
              THEN /\ currentStep' = NextStep(currentStep)
                   /\ errors' = Empty
                   /\ Render(currentStep', formData)
              ELSE /\ errors' = r.errors
                   /\ UNCHANGED <<currentStep, analyzerVars>>
    /\ UNCHANGED <<formData, status, isConfigured, translations>>
    /\ UNCHANGED speechVars

\* the Next button, rendered while currentStep < steps.length - 1
HandleNext ==
    /\ currentStep < StepCount - 1
    /\ LET r == ValidateStep(currentStep, formData, errors)
       IN  /\ uncaught' = r.threw
           /\ IF r.threw
              THEN UNCHANGED <<currentStep, errors, analyzerVars>>
              ELSE IF r.ok
              THEN /\ currentStep' = NextStep(currentStep)
                   /\ errors' = Empty
                   /\ Render(currentStep', formData)
              ELSE /\ errors' = r.errors
                   /\ UNCHANGED <<currentStep, analyzerVars>>
    /\ UNCHANGED <<formData, status, isConfigured, translations>>
    /\ UNCHANGED speechVars

\* a Previous button that keeps the errors of the step it leaves
HandlePrevious_KeepsErrors ==
    /\ currentStep > 0
    /\ currentStep' = PreviousStep(currentStep)
    /\ UNCHANGED errors
    /\ Render(currentStep', formData)
    /\ uncaught' = FALSE
    /\ UNCHANGED <<formData, status, isConfigured, translations>>
    /\ UNCHANGED speechVars

\* the Previous button, rendered while currentStep > 0
HandlePrevious ==
    /\ currentStep > 0
    /\ currentStep' = PreviousStep(currentStep)
    /\ errors' = Empty
    /\ Render(currentStep', formData)
    /\ uncaught' = FALSE
    /\ UNCHANGED <<formData, status, isConfigured, translations>>
    /\ UNCHANGED speechVars

\* The form's onSubmit. The Submit button is rendered on the review step
\* (currentStep = steps.length - 2). On the case step the form has no submit
\* button (Previous and Next are type="button") and caseDescription is its
\* only text-like input, so Enter in that input submits the form as well;
\* the personal step has three such inputs, which rules that out there.
SubmitReachable(step) == step = StepCount - 2 \/ step = 1

\* an onSubmit that files the application without looking at the result of
\* the validation pass
HandleSubmit_Unvalidated ==
    /\ SubmitReachable(currentStep)
    /\ LET r == ValidateStep(currentStep, formData, errors)
       IN  /\ uncaught' = r.threw
           /\ IF r.threw
              THEN UNCHANGED <<currentStep, errors, status, analyzerVars>>
              ELSE /\ status' = Reviewing
                   /\ currentStep' = SubmittedStep
                   /\ Render(currentStep', formData)
                   /\ errors' = r.errors
    /\ UNCHANGED <<formData, isConfigured, translations>>
    /\ UNCHANGED speechVars

HandleSubmit ==
    /\ SubmitReachable(currentStep)
    /\ LET r == ValidateStep(currentStep, formData, errors)
       IN  /\ uncaught' = r.threw
           /\ IF r.threw
              THEN UNCHANGED <<currentStep, errors, status, analyzerVars>>
              ELSE IF r.ok
              THEN /\ status' = Reviewing
                   /\ currentStep' = SubmittedStep
                   /\ Render(currentStep', formData)
                   /\ UNCHANGED errors
              ELSE /\ errors' = r.errors
                   /\ UNCHANGED <<currentStep, status, analyzerVars>>
    /\ UNCHANGED <<formData, isConfigured, translations>>
    /\ UNCHANGED speechVars


----------------------------------------------------------------------------
(* The analyzer: the debounce timer fires, the guidance call settles *)

\* in-flight analyzeCaseDescription calls the model keeps at once
MaxInFlight == 2

Payload(msg, of) ==
    [explanation |-> [msg |-> msg, of |-> of],
     requirements |-> <<>>, suggestions |-> <<>>]

\* returned when the client is not configured
Unavailable ==
    Payload("AI analysis is currently unavailable. Please proceed with your application.",
            <<>>)

\* a failing call that returns the blank parsedGuidance
Fallback_Blank == Payload("", <<>>)

\* returned when the configured call fails
Fallback ==
    Payload("Unable to analyze the case at this moment. Please continue with your application.",
            <<>>)

\* what a configured call that succeeds returns: the service's text about
\* the description it was given
ServiceGuidance(text) == Payload("guidance", text)

GuidanceOutcomes == {"answered", "failed"}

GuidanceResult(text, outcome) ==
    IF outcome = "answered" THEN ServiceGuidance(text) ELSE Fallback

\* setTimeout(analyzeCase, 1000) elapses: analyzeCase runs up to its await.
\* An unconfigured analyzeCaseDescription returns without awaiting anything,
\* so analyzeCase then finishes before any other event is handled.
TimerFires ==
    /\ debounceTimer # <<>>
    /\ debounceTimer' = <<>>
    /\ IF isConfigured
       THEN /\ BagCardinality(requests) < MaxInFlight
            /\ isAnalyzing' = TRUE
            /\ requests' = requests (+) SetToBag({[text |-> debounceTimer[1], live |-> TRUE]})
            /\ UNCHANGED aiGuidance
            /\ uncaught' = FALSE
       ELSE /\ isAnalyzing' = FALSE
            /\ aiGuidance' = <<Unavailable>>
            /\ UNCHANGED requests
            /\ uncaught' = FALSE
    /\ UNCHANGED <<appVars, mounted, isConfigured, translations>>
    /\ UNCHANGED speechVars

\* an analyzeCase that leaves the flag set when the call failed
GuidanceSettles_BusyOnFailure(r, outcome) ==
    /\ BagIn(r, requests)
    /\ requests' = requests (-) SetToBag({r})
    /\ IF r.live
       THEN /\ aiGuidance' = <<GuidanceResult(r.text, outcome)>>
            /\ isAnalyzing' = (outcome = "failed" /\ isAnalyzing)
       ELSE UNCHANGED <<aiGuidance, isAnalyzing>>
    /\ uncaught' = FALSE
    /\ UNCHANGED <<appVars, mounted, debounceTimer, isConfigured, translations>>
    /\ UNCHANGED speechVars

\* an awaited analyzeCaseDescription call settles; it never rejects
GuidanceSettles(r, outcome) ==
    /\ BagIn(r, requests)
    /\ requests' = requests (-) SetToBag({r})
    /\ IF r.live
       THEN /\ aiGuidance' = <<GuidanceResult(r.text, outcome)>>
            /\ isAnalyzing' = FALSE
       ELSE UNCHANGED <<aiGuidance, isAnalyzing>>
    /\ uncaught' = FALSE
    /\ UNCHANGED <<appVars, mounted, debounceTimer, isConfigured, translations>>
    /\ UNCHANGED speechVars


----------------------------------------------------------------------------
(* handleSpeechInput: translation, then keyword extraction *)

UpperSeq ==
    <<"A","B","C","D","E","F","G","H","I","J","K","L","M",
      "N","O","P","Q","R","S","T","U","V","W","X","Y","Z">>

LowerSeq ==
    <<"a","b","c","d","e","f","g","h","i","j","k","l","m",
      "n","o","p","q","r","s","t","u","v","w","x","y","z">>

\* String.prototype.toLowerCase
ToLowerCase(s) ==
    [i \in DOMAIN s |->
        IF s[i] \in UpperLetters
        THEN LowerSeq[CHOOSE k \in DOMAIN UpperSeq : UpperSeq[k] = s[i]]
        ELSE s[i]]

\* String.prototype.split(' '): the pieces between single spaces, empty
\* pieces included
RECURSIVE SplitFrom(_, _, _)
SplitFrom(s, i, word) ==
    IF i > Len(s) THEN <<word>>
    ELSE IF s[i] = " " THEN <<word>> \o SplitFrom(s, i + 1, <<>>)
    ELSE SplitFrom(s, i + 1, Append(word, s[i]))

Split(s) == SplitFrom(s, 1, <<>>)

\* Array.prototype.join(' ')
RECURSIVE Join(_)
Join(words) ==
    IF Len(words) = 0 THEN <<>>
    ELSE IF Len(words) = 1 THEN words[1]
    ELSE words[1] \o <<" ">> \o Join(Tail(words))

\* String.prototype.includes
Includes(word, part) ==
    \E i \in 1..(Len(word) - Len(part) + 1) :
        SubSeq(word, i, i + Len(part) - 1) = part

\* the first index among hits; 0 stands for -1
FirstIndex(hits) ==
    IF hits = {} THEN 0 ELSE CHOOSE i \in hits : \A j \in hits : i <= j

\* fieldMappings, flattened in the order Object.entries and forEach visit it;
\* a Devanagari letter is written as the name of its code point
FieldMappings ==
    << <<"name", <<"n","a","m","e">> >>,
       <<"name", <<"n","a","a","m">> >>,
       <<"name", <<"U+0928","U+093E","U+092E">> >>,
       <<"address", <<"a","d","d","r","e","s","s">> >>,
       <<"address", <<"p","a","t","a">> >>,
       <<"address", <<"U+092A","U+0924","U+093E">> >>,
       <<"caseDescription", <<"c","a","s","e">> >>,
       <<"caseDescription", <<"d","e","s","c","r","i","p","t","i","o","n">> >>,
       <<"caseDescription", <<"U+092E","U+093E","U+092E","U+0932","U+093E">> >>,
       <<"caseDescription", <<"U+0935","U+093F","U+0935","U+0930","U+0923">> >> >>

\* keywordIndex of the try branch: findIndex(word => word.includes(keyword))
TranslatedIndex(words, keyword) ==
    FirstIndex({i \in DOMAIN words : Includes(words[i], keyword)})

\* keywordIndex of the catch branch: words.includes(keyword), words.indexOf
FallbackIndex(words, keyword) ==
    FirstIndex({i \in DOMAIN words : words[i] = keyword})

KeywordIndex(words, keyword, translated) ==
    IF translated THEN TranslatedIndex(words, keyword)
    ELSE FallbackIndex(words, keyword)

\* a pass that does not look at the word after the keyword
Extract_NoNextWordTest(words, translated) ==
    LET Calls[n \in 0..Len(FieldMappings)] ==
            IF n = 0 THEN <<>>
            ELSE LET field == FieldMappings[n][1]
                     k == KeywordIndex(words, FieldMappings[n][2], translated)
                 IN  IF k # 0
                     THEN Append(Calls[n - 1],
                                 <<field, Text(Join(SubSeq(words, k + 1, Len(words))))>>)
                     ELSE Calls[n - 1]
    IN  Calls[Len(FieldMappings)]

\* the handleInputChange calls one pass over fieldMappings makes, in order:
\* <<field, value>> for every keyword found with a non-empty word after it
Extract(words, translated) ==
    LET Calls[n \in 0..Len(FieldMappings)] ==
            IF n = 0 THEN <<>>
            ELSE LET field == FieldMappings[n][1]
                     k == KeywordIndex(words, FieldMappings[n][2], translated)
                 IN  IF k # 0 /\ k + 1 <= Len(words) /\ Len(words[k + 1]) > 0
                     THEN Append(Calls[n - 1],
                                 <<field, Text(Join(SubSeq(words, k + 1, Len(words))))>>)
                     ELSE Calls[n - 1]
    IN  Calls[Len(FieldMappings)]

\* formData and errors after a sequence of handleInputChange calls
RECURSIVE ApplyFields(_, _)
ApplyFields(data, calls) ==
    IF calls = <<>> THEN data
    ELSE ApplyFields(SetField(data, calls[1][1], calls[1][2]), Tail(calls))

RECURSIVE ApplyClears(_, _)
ApplyClears(errs, calls) ==
    IF calls = <<>> THEN errs
    ELSE ApplyClears(ClearError(errs, calls[1][1]), Tail(calls))

\* translateText calls of handleSpeechInput the model keeps in flight at once
MaxTranslations == 1

\* what the speech component hands to onTranscript
Transcripts ==
    { <<"n","a","a","m"," ","a","1">>,
      <<"A","d","d","r","e","s","s"," ","1"," ","m","a","i","n"," ","s","t">> }

\* handleSpeechInput up to its await: translateText(transcript, 'auto', 'en')
StartSpeechInput(transcript) ==
    /\ BagCardinality(translations) < MaxTranslations
    /\ translations' = translations (+) SetToBag({transcript})

\* a call of handleSpeechInput on a transcript the speech component hands over
HandleSpeechInput(transcript) ==
    /\ StartSpeechInput(transcript)
    /\ uncaught' = FALSE
    /\ UNCHANGED <<appVars, analyzerVars, isConfigured>>
    /\ UNCHANGED speechVars

\* the calls made once the translation settles: on the translated words in
\* the try branch, on the transcript's own words in the catch branch
SpeechCalls(transcript, translated) ==
    IF translated = <<>>
    THEN Extract(Split(ToLowerCase(transcript)), FALSE)
    ELSE Extract(Split(ToLowerCase(translated[1])), TRUE)

\* translateText settles: translated = <<text>> when it resolved, <<>> when
\* it threw 'Translation failed'
TranslationSettles(transcript, translated) ==
    /\ BagIn(transcript, translations)
    /\ translations' = translations (-) SetToBag({transcript})
    /\ LET calls == SpeechCalls(transcript, translated)
       IN  /\ formData' = ApplyFields(formData, calls)
           /\ errors' = ApplyClears(errors, calls)
           /\ IF mounted THEN Render(currentStep, formData')
                         ELSE UNCHANGED analyzerVars
    /\ uncaught' = FALSE
    /\ UNCHANGED <<currentStep, status, isConfigured>>
    /\ UNCHANGED speechVars

----------------------------------------------------------------------------
(* The SpeechInput component *)

\* supportedLanguages, its first two entries
Languages == { <<"h","i","-","I","N">>, <<"b","n","-","I","N">> }

\* useState('hi-IN')
DefaultLanguage == <<"h","i","-","I","N">>

\* selectedLanguage.split('-')[0]
LanguageCode(language) ==
    LET dashes == {i \in DOMAIN language : language[i] = "-"}
    IN  IF dashes = {} THEN language
        ELSE SubSeq(language, 1,
                    (CHOOSE i \in dashes : \A j \in dashes : i <= j) - 1)

\* the object the effect builds: its lang property and the selectedLanguage
\* its onresult handler closes over
NewRecognition(language) == [lang |-> language, heard |-> language]

\* recognition objects the model keeps started at once
MaxStreams == 2

\* translateText calls of onresult the model keeps in flight at once
MaxCaptures == 2

\* the stream of the object held in the recognition state, if it was started
Started == {s \in streams : s.current}

\* recognition.start(): the capture takes the object's lang as it is now
Start(rec) ==
    [lang |-> rec.lang, heard |-> rec.heard, phase |-> "running", current |-> TRUE]

\* recognition.stop() on the object held in the recognition state
Stop(S) ==
    {IF s.current THEN [s EXCEPT !.phase = "stopping"] ELSE s : s \in S}

\* setRecognition(new object): a started object stays started, but is no
\* longer the one the handlers reach
Detach(S) == {[s EXCEPT !.current = FALSE] : s \in S}

\* toggleListening; the button is disabled while isTranslating.  start() on
\* an object that was started and has not ended raises InvalidStateError
\* before setIsListening is reached.
ToggleListening ==
    /\ ~isTranslating
    /\ IF isListening
       THEN /\ streams' = IF recognition = <<>> THEN streams ELSE Stop(streams)
            /\ isListening' = FALSE
            /\ uncaught' = FALSE
       ELSE IF recognition = <<>>
       THEN /\ isListening' = TRUE
            /\ uncaught' = FALSE
            /\ UNCHANGED streams
       ELSE IF Started # {}
       THEN /\ uncaught' = TRUE
            /\ UNCHANGED <<isListening, streams>>
       ELSE /\ Cardinality(streams) < MaxStreams
            /\ streams' = streams \cup {Start(recognition[1])}
            /\ isListening' = TRUE
            /\ uncaught' = FALSE
    /\ UNCHANGED <<available, recognition, selectedLanguage, isTranslating, captures>>
    /\ UNCHANGED <<appVars, analyzerVars, isConfigured, translations>>

\* handleLanguageChange without its stop of a running capture
HandleLanguageChange_NoStop(language) ==
    /\ language # selectedLanguage
    /\ selectedLanguage' = language
    /\ isListening' = FALSE
    /\ streams' = Detach(streams)
    /\ recognition' = IF available THEN <<NewRecognition(language)>> ELSE <<>>
    /\ uncaught' = FALSE
    /\ UNCHANGED <<available, isTranslating, captures>>
    /\ UNCHANGED <<appVars, analyzerVars, isConfigured, translations>>

\* handleLanguageChange, called by the select's change event, and the effect
\* its setSelectedLanguage re-runs: the held object is stopped when
\* isListening, and is then replaced by a new object.  The handler's
\* recognition.lang = language lands on the object that is being replaced; a
\* capture reads lang when it is started, so no capture sees that assignment.
HandleLanguageChange(language) ==
    /\ language # selectedLanguage
    /\ selectedLanguage' = language
    /\ isListening' = FALSE
    /\ streams' = Detach(IF isListening /\ recognition # <<>>
                         THEN Stop(streams) ELSE streams)
    /\ recognition' = IF available THEN <<NewRecognition(language)>> ELSE <<>>
    /\ uncaught' = FALSE
    /\ UNCHANGED <<available, isTranslating, captures>>
    /\ UNCHANGED <<appVars, analyzerVars, isConfigured, translations>>

\* onresult up to its await: setIsTranslating(true) and
\* translateText(transcript, selectedLanguage.split('-')[0], 'en'), with the
\* selectedLanguage of the render that built the object
RecognitionResult(s, transcript) ==
    /\ s \in streams
    /\ BagCardinality(captures) < MaxCaptures
    /\ isTranslating' = TRUE
    /\ captures' = captures (+)
          SetToBag({[transcript |-> transcript, source |-> LanguageCode(s.heard)]})
    /\ uncaught' = FALSE
    /\ UNCHANGED <<available, isListening, recognition, selectedLanguage, streams>>
    /\ UNCHANGED <<appVars, analyzerVars, isConfigured, translations>>

\* the catch branch of onresult forwarding nothing
Forwarded_Dropped(transcript, translated) ==
    IF translated = <<>> THEN <<>> ELSE translated[1]

\* what onresult hands to onTranscript: translatedResult.translatedText in
\* the try branch, the transcript in the catch branch
Forwarded(transcript, translated) ==
    IF translated = <<>> THEN transcript ELSE translated[1]

\* onresult after its await: translated = <<text>> when translateText
\* resolved, <<>> when it threw; onTranscript is App's handleSpeechInput
CaptureSettles(c, translated) ==
    /\ BagIn(c, captures)
    /\ captures' = captures (-) SetToBag({c})
    /\ StartSpeechInput(Forwarded(c.transcript, translated))
    /\ isTranslating' = FALSE
    /\ uncaught' = FALSE
    /\ UNCHANGED <<available, isListening, recognition, selectedLanguage, streams>>
    /\ UNCHANGED <<appVars, analyzerVars, isConfigured>>

\* onerror of a started object; the capture ends with the error
RecognitionError(s) ==
    /\ s \in streams
    /\ streams' = streams \ {s}
    /\ isListening' = FALSE
    /\ uncaught' = FALSE
    /\ UNCHANGED <<available, recognition, selectedLanguage, isTranslating, captures>>
    /\ UNCHANGED <<appVars, analyzerVars, isConfigured, translations>>

\* a capture ends; the component sets no onend handler
StreamEnds(s) ==
    /\ s \in streams
    /\ streams' = streams \ {s}
    /\ uncaught' = FALSE
    /\ UNCHANGED <<available, isListening, recognition, selectedLanguage,
                   isTranslating, captures>>
    /\ UNCHANGED <<appVars, analyzerVars, isConfigured, translations>>

----------------------------------------------------------------------------
(* Specification *)

InitWizard ==
    /\ formData = Empty
    /\ currentStep = 0
    /\ errors = Empty
    /\ status = Pending
    /\ mounted = TRUE
    /\ debounceTimer = <<>>
    /\ isAnalyzing = FALSE
    /\ aiGuidance = <<>>
    /\ requests = EmptyBag
    /\ translations = EmptyBag
    /\ uncaught = FALSE

\* the SpeechInput state after its first effect
InitSpeechInput ==
    /\ isListening = FALSE
    /\ recognition = IF available THEN <<NewRecognition(DefaultLanguage)>> ELSE <<>>
    /\ selectedLanguage = DefaultLanguage
    /\ isTranslating = FALSE
    /\ streams = {}
    /\ captures = EmptyBag

Init ==
    /\ InitWizard
    /\ isConfigured \in BOOLEAN
    /\ available = TRUE
    /\ InitSpeechInput

Next ==
    \/ \E id \in FieldIds : \E v \in UIInputs(id) : HandleInputChange(id, v)
    \/ HandleNext
    \/ HandlePrevious
    \/ HandleSubmit
    \/ TimerFires
    \/ \E r \in DOMAIN requests : \E o \in GuidanceOutcomes : GuidanceSettles(r, o)
    \/ \E t \in Transcripts : HandleSpeechInput(t)
    \/ \E t \in DOMAIN translations :
          \E tr \in {<<>>} \cup {<<x>> : x \in Transcripts} : TranslationSettles(t, tr)

Spec == Init /\ [][Next]_vars

\* The speech path on its own: the SpeechInput component in a browser with or
\* without the recognition API, and the handleSpeechInput calls it makes.
SpeechInit ==
    /\ InitWizard
    /\ isConfigured = FALSE
    /\ available \in BOOLEAN
    /\ InitSpeechInput

SpeechNext ==
    \/ ToggleListening
    \/ \E l \in Languages : HandleLanguageChange(l)
    \/ \E s \in streams : \E t \in Transcripts : RecognitionResult(s, t)
    \/ \E c \in DOMAIN captures :
          \E tr \in {<<>>} \cup {<<x>> : x \in Transcripts} : CaptureSettles(c, tr)
    \/ \E s \in streams : RecognitionError(s)
    \/ \E s \in streams : StreamEnds(s)
    \/ \E t \in DOMAIN translations :
          \E tr \in {<<>>} \cup {<<x>> : x \in Transcripts} : TranslationSettles(t, tr)

SpeechSpec == SpeechInit /\ [][SpeechNext]_vars

\* The extraction on its own: texts a recognition and a translation can
\* produce, handed to handleSpeechInput in a wizard whose Next button adds the
\* errors of the personal step.
SpokenTexts ==
    { <<"n","a","a","m"," ","a","1">>,
      <<"A","d","d","r","e","s","s"," ","1"," ","m","a","i","n"," ","s","t">>,
      <<"s","u","r","n","a","m","e"," ","a"," ","n","a","m","e"," ","b">>,
      <<"n","a","m","e">>,
      <<"n","a","m","e"," ","a","l"," ","a","d","d","r","e","s","s"," ","1","2"," ","m","a","i","n"," ","s","t">>,
      <<"h","e","l","l","o">>,
      <<"U+0928","U+093E","U+092E"," ","a","l">>,
      <<"c","a","s","e"," ","d","e","s","c","r","i","p","t","i","o","n"," ","x">> }

ExtractNext ==
    \/ HandleNext
    \/ \E t \in SpokenTexts : HandleSpeechInput(t)
    \/ \E t \in DOMAIN translations :
          \E tr \in {<<>>} \cup {<<x>> : x \in SpokenTexts} : TranslationSettles(t, tr)

ExtractSpec == SpeechInit /\ [][ExtractNext]_vars


----------------------------------------------------------------------------
(* Properties of the wizard controller *)

FieldsOf(step) == IF step < SectionCount THEN Range(SectionFields(step)) ELSE {}

IsPresent(data, f) ==
    f \in DOMAIN data /\ (data[f].kind = "file" \/ data[f].chars # <<>>)

\* the shape rule of a field, stated on its own: name is 2 to 50 letters or
\* whitespace, address has at least 10 characters, caseDescription at least
\* 50, the other text fields are text and the attachments are files
ShapeOK(data, f) ==
    LET v == data[f]
    IN  CASE f = "name" ->
               /\ v.kind = "text"
               /\ Len(v.chars) >= 2 /\ Len(v.chars) <= 50
               /\ \A i \in DOMAIN v.chars :
                     v.chars[i] \in LowerLetters \cup UpperLetters \cup {" "}
          [] f = "address" -> v.kind = "text" /\ Len(v.chars) >= 10
          [] f = "caseDescription" -> v.kind = "text" /\ Len(v.chars) >= 50
          [] f \in {"idProof", "supportingDocs"} -> v.kind = "file"
          [] OTHER -> v.kind = "text"

MissingOf(step, data) == {f \in FieldsOf(step) : ~IsPresent(data, f)}

MisshapenOf(step, data) ==
    {f \in FieldsOf(step) : IsPresent(data, f) /\ ~ShapeOK(data, f)}

StepFieldsValid(step, data) ==
    MissingOf(step, data) = {} /\ MisshapenOf(step, data) = {}

\* C1: on a data-entry step, handleNext moves the step index forward by
\* exactly one and empties the errors if and only if every required field of
\* the step is present and every field of the step satisfies its shape rule;
\* otherwise the step index stays and the errors are not empty.
C1_AdvanceIffValid ==
    [][(currentStep < SectionCount /\ HandleNext) =>
         IF StepFieldsValid(currentStep, formData)
         THEN currentStep' = currentStep + 1 /\ errors' = Empty
         ELSE currentStep' = currentStep /\ errors' # Empty]_vars

\* the case step was reached and nothing of it is filled in yet: handleNext
\* has just passed the personal step
C1_Witness ==
    /\ currentStep = 1
    /\ FieldsOf(1) \cap DOMAIN formData = {}
    /\ errors = Empty
    /\ StepFieldsValid(0, formData)

\* a validation pass of the active step that returned false
FailingPass ==
    /\ currentStep < SectionCount
    /\ ~StepFieldsValid(currentStep, formData)
    /\ (HandleNext \/ HandleSubmit)

\* C2: after a failing validation pass the keys of the errors are exactly
\* the failing fields of the step, the missing ones and the present ones
\* whose shape rule fails, each missing one with the required message.
C2_ErrorsAreAllFailingFields ==
    [][FailingPass =>
         /\ DOMAIN errors' =
               MissingOf(currentStep, formData) \cup MisshapenOf(currentStep, formData)
         /\ \A f \in MissingOf(currentStep, formData) :
               errors'[f] = "This field is required"]_vars

\* an action that moved the step index or changed the status
MovedOrFiled == currentStep' # currentStep \/ status' # status

\* C3: handleSubmit changes the status and the step index only when the
\* validation pass of the active step succeeds; when the pass does not
\* succeed, status and step index are what they were.
C3_SubmitOnlyWhenValid ==
    [][HandleSubmit =>
         /\ MovedOrFiled =>
               /\ StepFieldsValid(currentStep, formData)
               /\ status'.status = "reviewing"
               /\ currentStep' = StepCount - 1
         /\ ~StepFieldsValid(currentStep, formData) => ~MovedOrFiled]_vars

\* a submission went through: the application is filed and shown on the
\* status step, the case step it was submitted from being valid
C3_Witness ==
    /\ status.status = "reviewing"
    /\ currentStep = StepCount - 1
    /\ StepFieldsValid(1, formData)
    /\ ~uncaught

\* C4: handleSubmit on the review step sets the status to reviewing and the
\* step index to the status step.
C4_SubmitOnReviewFiles ==
    [][(currentStep = StepCount - 2 /\ HandleSubmit) =>
         status'.status = "reviewing" /\ currentStep' = StepCount - 1]_vars

\* C5: on the review step the validation pass succeeds without raising, so
\* handleNext moves to the status step and leaves the errors empty.
C5_AdvanceFromReview ==
    [][(currentStep = StepCount - 2 /\ HandleNext) =>
         ~uncaught' /\ currentStep' = StepCount - 1 /\ errors' = Empty]_vars

\* C6: handlePrevious can always be taken where it is offered, validates
\* nothing and never raises: it sets the step index to max(index - 1, 0) and
\* leaves the errors empty, from the status step as from any other.
C6_RetreatAlwaysClears ==
    /\ [](currentStep > 0 => ENABLED HandlePrevious)
    /\ [][HandlePrevious =>
            /\ currentStep' = (IF currentStep >= 1 THEN currentStep - 1 ELSE 0)
            /\ errors' = Empty
            /\ ~uncaught']_vars

\* the review step after a submission: handlePrevious has left the status step
C6_Witness ==
    /\ currentStep = StepCount - 2
    /\ status.status = "reviewing"
    /\ errors = Empty

\* the errors of every field but those of ids are what they were, and ids
\* have none
ErrorsFrame(ids) ==
    /\ DOMAIN errors' = DOMAIN errors \ ids
    /\ \A f \in DOMAIN errors' : errors'[f] = errors[f]

\* C7: handleInputChange(id, value) removes the error of id, if any, and
\* leaves the error of every other field as it was; so does every call the
\* speech extraction makes.
C7_EditClearsOwnErrorOnly ==
    [][/\ \A id \in FieldIds : \A v \in UIInputs(id) :
             HandleInputChange(id, v) => ErrorsFrame({id})
       /\ \A t \in DOMAIN translations :
             \A tr \in {<<>>} \cup {<<x>> : x \in Transcripts} :
                TranslationSettles(t, tr) =>
                   ErrorsFrame({c[1] : c \in Range(SpeechCalls(t, tr))})]_vars

\* the case step after a failed pass and an edit of the case type: the case
\* type is the empty option, which a pass would have reported, and has no
\* error, while the errors of the two other fields are still there
C7_Witness ==
    /\ currentStep = 1
    /\ DOMAIN errors = {"caseDescription", "supportingDocs"}
    /\ "caseType" \in DOMAIN formData
    /\ formData["caseType"].chars = <<>>

\* C8: the step index is always one of the four stages.
C8_StepInRange == currentStep \in 0..(StepCount - 1)

\* the last stage, reached while a speech translation is still outstanding
C8_Witness ==
    /\ currentStep = StepCount - 1
    /\ translations # EmptyBag

\* C9: the status changes only in handleSubmit, from pending to reviewing,
\* and a status that is reviewing never becomes pending again.
C9_StatusOnlyBySubmit ==
    [][/\ status' # status =>
             /\ HandleSubmit
             /\ status.status = "pending"
             /\ status'.status = "reviewing"
       /\ status.status = "reviewing" => status'.status = "reviewing"]_vars

\* a filed application whose wizard was taken back to the first step
C9_Witness ==
    /\ status.status = "reviewing"
    /\ currentStep = 0

----------------------------------------------------------------------------
(* Properties of the debounced analyzer *)

DescriptionLength(data) ==
    IF "caseDescription" \in DOMAIN data
    THEN Len(data["caseDescription"].chars) ELSE 0

InFlight == BagCardinality(requests)

\* C10: while the case description is shorter than 50 characters no debounce
\* timer is armed, none fires and no guidance request is issued.
C10_ShortDescriptionNeverAnalyzed ==
    /\ [](DescriptionLength(formData) < 50 => debounceTimer = <<>>)
    /\ [][DescriptionLength(formData) < 50 =>
            ~TimerFires /\ BagCardinality(requests') <= InFlight]_vars

\* a description cut back to 49 characters while the request for the longer
\* text it replaced is still in flight
C10_Witness ==
    /\ mounted
    /\ DescriptionLength(formData) = 49
    /\ \E r \in DOMAIN requests : r.live
    /\ debounceTimer = <<>>

\* the text of the description in data, <<>> when there is none
DescriptionChars(data) ==
    IF "caseDescription" \in DOMAIN data /\ data["caseDescription"].kind = "text"
    THEN data["caseDescription"].chars ELSE <<>>

\* an edit of the description of a rendered FormSection
DescriptionEdited ==
    /\ mounted /\ mounted'
    /\ Description(formData') # Description(formData)

\* the guidance request for text, issued by the rendered instance
LiveRequest(text) == [text |-> text, live |-> TRUE]

\* C11: every edit of a burst replaces the pending timer by one for the
\* edited text, so the burst ends with one timer for its final text (a text
\* of at least the minimum length of 50); the timer that fires holds the
\* current description, that is, no timer of a superseded edit fires, and
\* its firing invokes the guidance service exactly once, with that text.
C11_BurstIssuesOneRequest ==
    [][/\ (DescriptionEdited /\ DescriptionLength(formData') >= DescriptionMin)
            => debounceTimer' = <<DescriptionChars(formData')>>
       /\ TimerFires =>
            /\ debounceTimer = <<DescriptionChars(formData)>>
            /\ debounceTimer' = <<>>
            /\ isConfigured =>
                  requests' = requests (+) SetToBag({LiveRequest(DescriptionChars(formData))})
            /\ ~isConfigured => aiGuidance' = <<Unavailable>>]_vars

\* C12: while a rendered description has at least 50 characters, its timer
\* is pending or the guidance service was already invoked for it (the request
\* is in flight, or a result is displayed).
C12_ThresholdTextAnalyzed ==
    (mounted /\ DescriptionLength(formData) >= DescriptionMin) =>
        \/ debounceTimer = <<DescriptionChars(formData)>>
        \/ BagIn(LiveRequest(DescriptionChars(formData)), requests)
        \/ aiGuidance # <<>>

\* a request of the rendered instance has not settled
Outstanding == \E r \in DOMAIN requests : r.live

\* C13: while a guidance request of the rendered analyzer has not settled,
\* isAnalyzing is true.
C13_BusyWhileOutstanding == Outstanding => isAnalyzing

\* C14: the result of a guidance request is written to aiGuidance only if
\* the text it was requested for is still the current description and no
\* timer for a later edit is pending.
C14_StaleResultIgnored ==
    [][\A r \in DOMAIN requests : \A o \in GuidanceOutcomes :
          (GuidanceSettles(r, o) /\ aiGuidance' = <<GuidanceResult(r.text, o)>>
             /\ r.live) =>
              /\ DescriptionChars(formData) = r.text
              /\ debounceTimer = <<>>]_vars

\* C15: when no request of the rendered analyzer is outstanding, isAnalyzing
\* is false; a request that settles, answered or failed, leaves it false.
C15_IdleWhenAllSettled ==
    /\ [](~Outstanding => ~isAnalyzing)
    /\ [][\A r \in DOMAIN requests : \A o \in GuidanceOutcomes :
             (GuidanceSettles(r, o) /\ r.live) => ~isAnalyzing']_vars

\* a failed request settled, nothing is outstanding and the analyzer is idle
C15_Witness ==
    /\ mounted
    /\ isConfigured
    /\ aiGuidance = <<Fallback>>
    /\ requests = EmptyBag
    /\ debounceTimer = <<>>
    /\ ~isAnalyzing

\* a payload with a message and nothing else
IsPlaceholder(p) ==
    /\ p.explanation.msg # ""
    /\ p.requirements = <<>>
    /\ p.suggestions = <<>>

\* C16: an unconfigured service answers at once, and a failed call settles,
\* with a placeholder payload (a non-empty explanation, no requirements, no
\* suggestions) and without an error; the rendered analyzer then shows that
\* placeholder.
C16_PlaceholderNeverError ==
    [][/\ (TimerFires /\ ~isConfigured) =>
             /\ aiGuidance' # <<>>
             /\ IsPlaceholder(aiGuidance'[1])
             /\ ~isAnalyzing'
             /\ ~uncaught'
       /\ \A r \in DOMAIN requests :
             (GuidanceSettles(r, "failed") /\ r.live) =>
                 /\ aiGuidance' # <<>>
                 /\ IsPlaceholder(aiGuidance'[1])
                 /\ ~uncaught']_vars

\* the unconfigured service's placeholder on display next to a description
\* the analyzer accepts
C16_Witness ==
    /\ ~isConfigured
    /\ aiGuidance = <<Unavailable>>
    /\ DescriptionLength(formData) > AnalyzeThreshold

\* what a navigation handler makes of the step index, the errors and the
\* status, computed from the wizard's own state alone
NavigationOutcome(op, step, data, errs, st) ==
    LET valid == StepFieldsValid(step, data)
        failed == IF MissingOf(step, data) # {}
                  THEN RequiredErrors(step, data) ELSE SchemaErrors(step, data)
    IN  CASE op = "previous" -> <<PreviousStep(step), Empty, st>>
          [] op = "next" ->
               IF step >= SectionCount THEN <<step, errs, st>>
               ELSE IF valid THEN <<NextStep(step), Empty, st>>
               ELSE <<step, failed, st>>
          [] op = "submit" ->
               IF step >= SectionCount THEN <<step, errs, st>>
               ELSE IF valid THEN <<SubmittedStep, errs, Reviewing>>
               ELSE <<step, failed, st>>

\* C17: whether Next, Previous and submit can be used depends on the step
\* index alone, and what they make of the step index, the errors and the
\* status is a function of the step index, the form values, the errors and
\* the status; the analyzer's state and the outstanding guidance and
\* translation requests play no part, and form values are left alone.
C17_NavigationIgnoresAnalyzer ==
    /\ []((ENABLED HandleNext) <=> currentStep < StepCount - 1)
    /\ []((ENABLED HandlePrevious) <=> currentStep > 0)
    /\ []((ENABLED HandleSubmit) <=> SubmitReachable(currentStep))
    /\ [][/\ HandleNext =>
               <<currentStep', errors', status'>> =
                  NavigationOutcome("next", currentStep, formData, errors, status)
          /\ HandlePrevious =>
               <<currentStep', errors', status'>> =
                  NavigationOutcome("previous", currentStep, formData, errors, status)
          /\ HandleSubmit =>
               <<currentStep', errors', status'>> =
                  NavigationOutcome("submit", currentStep, formData, errors, status)
          /\ (HandleNext \/ HandlePrevious \/ HandleSubmit) =>
               formData' = formData /\ translations' = translations]_vars

\* the wizard moved on to the review step while a guidance request and a
\* translation were outstanding
C17_Witness ==
    /\ currentStep = StepCount - 2
    /\ requests # EmptyBag
    /\ translations # EmptyBag

----------------------------------------------------------------------------
(* Properties of the SpeechInput component *)

Running(S) == {s \in S : s.phase = "running"}

\* the languages of the captures in S
LanguagesOf(S) == {<<s.lang, s.heard>> : s \in S}

TranslationResults == {<<>>} \cup {<<x>> : x \in Transcripts}

\* C19: when the translation of a recognition event settles, onTranscript is
\* called exactly once, with the translated text if the translation
\* resolved and with the event's transcript if it failed; an event leaves
\* the outstanding ones only by that call.
C19_EveryEventForwardedOnce ==
    [][/\ \A c \in DOMAIN captures : \A tr \in TranslationResults :
             CaptureSettles(c, tr) =>
                 translations' = translations (+)
                    SetToBag({IF tr = <<>> THEN c.transcript ELSE tr[1]})
       /\ BagCardinality(captures') < BagCardinality(captures) =>
             /\ BagCardinality(captures') = BagCardinality(captures) - 1
             /\ BagCardinality(translations') = BagCardinality(translations) + 1]_vars

\* one event's text was handed to handleSpeechInput while the translation of
\* a later event is outstanding
C19_Witness ==
    /\ translations # EmptyBag
    /\ captures # EmptyBag

\* C20: while a translation started by a recognition event is outstanding,
\* isTranslating is true and the listen toggle cannot be used.
C20_ToggleGatedWhileTranslating ==
    captures # EmptyBag => (isTranslating /\ ~ENABLED ToggleListening)

\* C21: where no recognition object was built, isListening is false: the
\* listen control changes nothing.
C21_NoCapabilityToggleIsNoOp == recognition = <<>> => ~isListening

----------------------------------------------------------------------------
(* Properties of the field extraction *)

\* the fields of the keyword table
ExtractableFields == {FieldMappings[n][1] : n \in DOMAIN FieldMappings}

KeywordsOf(field) ==
    {FieldMappings[n][2] : n \in {m \in DOMAIN FieldMappings : FieldMappings[m][1] = field}}

\* the tokens the extraction scans: those of the translated text when the
\* translation resolved, those of the transcript when it failed
ScannedWords(transcript, translated) ==
    Split(ToLowerCase(IF translated = <<>> THEN transcript ELSE translated[1]))

\* the position of keyword as a token of words, 0 when it is none
TokenPosition(words, keyword) ==
    FirstIndex({i \in DOMAIN words : words[i] = keyword})

\* keyword is a token of words and a token follows it
Anchored(words, keyword) ==
    TokenPosition(words, keyword) # 0 /\ TokenPosition(words, keyword) < Len(words)

\* the tokens strictly after keyword, joined by single spaces
TailAfter(words, keyword) ==
    Text(Join(SubSeq(words, TokenPosition(words, keyword) + 1, Len(words))))

\* C22: when the extraction has run, every field of the keyword table with a
\* keyword that is a token of the scanned text and is followed by a token
\* holds the tokens strictly after such a keyword, joined by single spaces up
\* to the end of the text; this holds of every field of the table on its own.
C22_FieldHoldsTailAfterKeyword ==
    [][\A t \in DOMAIN translations : \A tr \in {<<>>} \cup {<<x>> : x \in SpokenTexts} :
          TranslationSettles(t, tr) =>
             \A field \in ExtractableFields :
                LET words == ScannedWords(t, tr)
                    anchors == {kw \in KeywordsOf(field) : Anchored(words, kw)}
                IN  anchors # {} =>
                       /\ field \in DOMAIN formData'
                       /\ formData'[field] \in {TailAfter(words, kw) : kw \in anchors}]_vars

\* the entry of field f in the map m, <<>> when it has none
EntryOf(m, f) == IF f \in DOMAIN m THEN <<m[f]>> ELSE <<>>

\* no keyword of the field occurs in the scanned text (in none of its
\* tokens), or the token a keyword is first found in is the last one
Unmatched(field, words) ==
    \A kw \in KeywordsOf(field) :
        LET found == {i \in DOMAIN words : Includes(words[i], kw)}
        IN  found = {} \/ FirstIndex(found) = Len(words)

----------------------------------------------------------------------------
(* Properties of the form values *)

\* C24: after handleInputChange(id, v), for a text or for a file, the value
\* of id in formData is v, whatever the field held before.
C24_SetFieldRoundTrip ==
    [][\A id \in FieldIds : \A v \in UIInputs(id) :
          HandleInputChange(id, v) =>
             id \in DOMAIN formData' /\ formData'[id] = v]_vars

\* a text that replaced a shorter one, next to an attachment
C24_Witness ==
    /\ EntryOf(formData, "name") = <<Text(<<"a", "l">>)>>
    /\ EntryOf(formData, "idProof") = <<File(<<"i", "d">>)>>
    /\ EntryOf(formData, "address") = <<Text(Chars("addr9"))>>

\* C25: a timer for a text whose guidance request is still in flight is
\* armed only by an edit of the description: while the description is not
\* edited there is at most one request for it, pending or in flight, also
\* when the form section is unmounted and mounted again.
C25_OneRequestPerSettledValue ==
    [][(/\ debounceTimer' # <<>>
        /\ debounceTimer' # debounceTimer
        /\ \E r \in DOMAIN requests : r.text = debounceTimer'[1]) =>
          Description(formData') # Description(formData)]_vars

\* a step that is not a set-field operation
NotSetField ==
    \/ HandleNext
    \/ HandlePrevious
    \/ HandleSubmit
    \/ TimerFires
    \/ \E r \in DOMAIN requests : \E o \in GuidanceOutcomes : GuidanceSettles(r, o)
    \/ \E t \in Transcripts : HandleSpeechInput(t)

\* C26: Next, Previous, submit, their validation passes, the timer and the
\* settling of a guidance request leave formData as it is; formData changes
\* only in handleInputChange, called by a control or by the field
\* extraction, and no step removes a key.
C26_OnlySetFieldChangesValues ==
    [][/\ NotSetField => formData' = formData
       /\ DOMAIN formData \subseteq DOMAIN formData'
       /\ formData' # formData =>
             \/ \E id \in FieldIds : \E v \in UIInputs(id) : HandleInputChange(id, v)
             \/ \E t \in DOMAIN translations :
                   \E tr \in {<<>>} \cup {<<x>> : x \in Transcripts} :
                      TranslationSettles(t, tr)]_vars

\* back on the personal step with the values of both steps in place
C26_Witness ==
    /\ currentStep = 0
    /\ FieldsOf(0) \cup FieldsOf(1) \subseteq DOMAIN formData

\* C27: every key of errors is a field of the active step; on the review
\* step and on the status step, which have no fields, errors is empty.
C27_ErrorsBelongToActiveStep == DOMAIN errors \subseteq FieldsOf(currentStep)

\* every field of the case step carries an error
C27_Witness ==
    /\ currentStep = 1
    /\ DOMAIN errors = FieldsOf(1)

\* C28: on the review step and on the status step every field of both
\* data-entry steps is present and satisfies its shape rule.
C28_ReviewedValuesAreValid ==
    currentStep >= StepCount - 2 =>
        StepFieldsValid(0, formData) /\ StepFieldsValid(1, formData)

============================================================================
